---- MODULE Spec2Model ----
(***************************************************************************)
(* A model of the SOLID examples of golang-design-patterns (package       *)
(* solid): the OCP product filters (ocp.go), the SRP logger and its file  *)
(* writer (srp.go), the LSP rectangle/square and the DIP manager          *)
(* (isp.go).  The examples share no state, so each has its own            *)
(* specification (SpecOCP, SpecSRP, SpecLSP, SpecDIP) over its own        *)
(* variables; the variables of the other examples stay at their idle      *)
(* values.                                                                 *)
(***************************************************************************)
EXTENDS Integers, Sequences, FiniteSets

VARIABLES
    products,     \* ocp.go: the []*Product slice main passes to the filters
    filterCall,   \* ocp.go: the filter method last called, with its arguments
    result,       \* ocp.go: the slice that call returned
    logEntries,   \* srp.go: Logger.logEntries
    files,        \* srp.go: the file system, the contents of each file name
    open,         \* srp.go: the file names with an open *os.File
    saveCall,     \* srp.go: the Save method last called, with its arguments
    saveRet,      \* srp.go: what that call returned and did to the file system
    rectangle,    \* isp.go (LSP): the value behind main's IRectangle
    constructed,  \* isp.go (LSP): the constructor that made it, with its arguments
    setCall,      \* isp.go (LSP): the setter last called, its argument, and the
                  \*   width and height read just before the call
    workers,      \* isp.go (DIP): Manager.workers
    managerCall,  \* isp.go (DIP): the Manager method last called
    invoked       \* isp.go (DIP): the Work calls the last DelegateWork made, in order

ocpVars == <<products, filterCall, result>>

srpVars == <<logEntries, files, open, saveCall, saveRet>>

lspVars == <<rectangle, constructed, setCall>>

dipVars == <<workers, managerCall, invoked>>

vars == <<ocpVars, srpVars, lspVars, dipVars>>

(***************************************************************************)
(* Bounds of the model.                                                    *)
(***************************************************************************)
MaxProducts == 2

MaxEntries == 2

MaxDim == 2

MaxWorkers == 4

(***************************************************************************)
(* ocp.go: sizes, colors, products.                                        *)
(***************************************************************************)
Small == 0
Medium == 1
Large == 2
Giant == 3

Red == 0
Green == 1
Blue == 2
Yellow == 3
Black == 4
White == 5

Sizes == {Small, Medium, Large, Giant}

Colors == {Red, Green, Blue, Yellow, Black, White}

NewProduct(name, size, color) == [name |-> name, size |-> size, color |-> color]

GetName(p) == p.name

\* main's five products, in the order of the products slice.
bike == NewProduct("Bike", Small, Blue)

motorcycle == NewProduct("Motorcycle", Small, Green)

car == NewProduct("Car", Medium, Green)

truck == NewProduct("Truck", Large, Red)

train == NewProduct("Train", Large, Yellow)

SampleProducts == <<bike, motorcycle, car, truck, train>>

\* The products a slice is drawn from: main's five.
ProductPool == {SampleProducts[i] : i \in 1..Len(SampleProducts)}

RECURSIVE SeqsUpTo(_, _)
SeqsUpTo(S, n) ==
    IF n = 0 THEN {<<>>}
    ELSE LET shorter == SeqsUpTo(S, n - 1)
         IN  shorter \cup {Append(s, x) : s \in {t \in shorter : Len(t) = n - 1}, x \in S}

\* The slices the filters are called on: every slice of at most MaxProducts
\* pooled products (the same pointer may occur twice), and main's slice.
ProductSlices == SeqsUpTo(ProductPool, MaxProducts) \cup {SampleProducts}

(***************************************************************************)
(* ocp.go: WrongFilter, one loop per criterion.                            *)
(***************************************************************************)
RECURSIVE BySizeLoop(_, _, _, _)
BySizeLoop(ps, size, i, res) ==
    IF i > Len(ps) THEN res
    ELSE BySizeLoop(ps, size, i + 1,
                    IF ps[i].size = size THEN Append(res, ps[i]) ELSE res)

BySize(ps, size) == BySizeLoop(ps, size, 1, <<>>)

RECURSIVE ByColorLoop(_, _, _, _)
ByColorLoop(ps, color, i, res) ==
    IF i > Len(ps) THEN res
    ELSE ByColorLoop(ps, color, i + 1,
                     IF ps[i].color = color THEN Append(res, ps[i]) ELSE res)

ByColor(ps, color) == ByColorLoop(ps, color, 1, <<>>)

\* A test that joins the two comparisons with || .
BySizeAndColorTestOr(p, size, color) == p.size = size \/ p.color = color

\* product.size == size && product.color == color
BySizeAndColorTest(p, size, color) == p.size = size /\ p.color = color

RECURSIVE BySizeAndColorLoop(_, _, _, _, _)
BySizeAndColorLoop(ps, size, color, i, res) ==
    IF i > Len(ps) THEN res
    ELSE BySizeAndColorLoop(ps, size, color, i + 1,
                            IF BySizeAndColorTest(ps[i], size, color)
                            THEN Append(res, ps[i]) ELSE res)

BySizeAndColor(ps, size, color) == BySizeAndColorLoop(ps, size, color, 1, <<>>)

(***************************************************************************)
(* ocp.go: the specifications and RightFilter.                             *)
(***************************************************************************)
NewColorSpecification(color) == [kind |-> "color", color |-> color]

NewSizeSpecification(size) == [kind |-> "size", size |-> size]

NewAndSpecification(first, second) == [kind |-> "and", first |-> first, second |-> second]

ColorIsSatisfied(cs, product) == cs.color = product.color

SizeIsSatisfied(cs, product) == cs.size = product.size

\* A conjunction that joins its operands with || .
AndCombineOr(first, second) == first \/ second

\* The && of AndSpecification.IsSatisfied, over the two operands' results.
AndCombine(first, second) == first /\ second

\* ISpecification.IsSatisfied, dispatched on the concrete type.
RECURSIVE IsSatisfied(_, _)
IsSatisfied(specification, product) ==
    CASE specification.kind = "color" -> ColorIsSatisfied(specification, product)
      [] specification.kind = "size" -> SizeIsSatisfied(specification, product)
      [] specification.kind = "and" ->
            AndCombine(IsSatisfied(specification.first, product),
                       IsSatisfied(specification.second, product))

\* A filter that puts each product it keeps in front of the result.
FilterKeepFirst(res, product) == <<product>> \o res

\* result = append(result, product)
FilterKeep(res, product) == Append(res, product)

RECURSIVE FilterLoop(_, _, _, _)
FilterLoop(ps, specification, i, res) ==
    IF i > Len(ps) THEN res
    ELSE FilterLoop(ps, specification, i + 1,
                    IF IsSatisfied(specification, ps[i])
                    THEN FilterKeep(res, ps[i]) ELSE res)

Filter(ps, specification) == FilterLoop(ps, specification, 1, <<>>)

\* The specifications the filter is called with: one per size, one per
\* color, and the conjunction of any two of those.
LeafSpecifications ==
    {NewSizeSpecification(s) : s \in Sizes} \cup {NewColorSpecification(c) : c \in Colors}

AndSpecifications ==
    {NewAndSpecification(p, q) : p \in LeafSpecifications, q \in LeafSpecifications}

Specifications == LeafSpecifications \cup AndSpecifications

NoSpecification == [kind |-> "none"]

NoCall == [method |-> "none", products |-> <<>>, specification |-> NoSpecification,
           size |-> Small, color |-> Red]

(***************************************************************************)
(* srp.go: the file system under os.Create, WriteString and Close.  A      *)
(* string is the sequence of its characters; a file that does not exist    *)
(* is NoFile.  The record os carries the file system through one Save      *)
(* call: the files, the open handles, and how many times the call created, *)
(* opened, wrote and closed.                                               *)
(***************************************************************************)
NL == "\n"

Filenames == {"./wrong.log", "./better.log"}

NoFile == <<"(no file)">>

Nil == "nil"

CreateError == "open: cannot create"

\* The entries Log is called with: empty, one character, a character and a
\* newline, and two characters around a newline.
Entries == {<<>>, <<"a">>, <<"b", NL>>, <<"a", NL, "b">>}

\* os.Create(filename): on success the file exists, is empty and is open;
\* on failure nothing changes.
OsCreate(os, filename, createOk) ==
    IF createOk
    THEN [os EXCEPT !.files[filename] = <<>>, !.open = @ \cup {filename},
                    !.creates = @ + 1, !.opens = @ + 1]
    ELSE [os EXCEPT !.creates = @ + 1]

\* f.WriteString(s)
WriteString(os, filename, s) ==
    [os EXCEPT !.files[filename] = @ \o s, !.writes = @ + 1]

\* A Save that never closes its file.
CloseForgotten(os, filename) == os

\* f.Close()
Close(os, filename) ==
    [os EXCEPT !.open = @ \ {filename}, !.closes = @ + 1]

StartOs == [files |-> files, open |-> open, creates |-> 0, opens |-> 0,
            writes |-> 0, closes |-> 0]

RECURSIVE LoggerSaveLoop(_, _, _, _)
LoggerSaveLoop(os, entries, filename, i) ==
    IF i > Len(entries) THEN os
    ELSE LoggerSaveLoop(WriteString(os, filename, entries[i] \o <<NL>>),
                        entries, filename, i + 1)

\* (l *Logger) Save(filename): the error returned and the file system left.
LoggerSave(os, entries, filename, createOk) ==
    LET created == OsCreate(os, filename, createOk)
    IN  IF ~createOk
        THEN [err |-> CreateError, os |-> created]
        ELSE [err |-> Nil,
              os |-> Close(LoggerSaveLoop(created, entries, filename, 1), filename)]

RECURSIVE LogFileWriterSaveLoop(_, _, _, _)
LogFileWriterSaveLoop(os, entries, filename, i) ==
    IF i > Len(entries) THEN os
    ELSE LogFileWriterSaveLoop(WriteString(os, filename, entries[i] \o <<NL>>),
                               entries, filename, i + 1)

\* A Save that drops the error of os.Create.
LogFileWriterSaveSwallow(os, entries, filename, createOk) ==
    LET created == OsCreate(os, filename, createOk)
    IN  IF ~createOk
        THEN [err |-> Nil, os |-> created]
        ELSE [err |-> Nil,
              os |-> Close(LogFileWriterSaveLoop(created, entries, filename, 1), filename)]

\* (lfw *LogFileWriter) Save(logger, filename)
LogFileWriterSave(os, entries, filename, createOk) ==
    LET created == OsCreate(os, filename, createOk)
    IN  IF ~createOk
        THEN [err |-> CreateError, os |-> created]
        ELSE [err |-> Nil,
              os |-> Close(LogFileWriterSaveLoop(created, entries, filename, 1), filename)]

\* saveCall and saveRet describe the Save call that has just returned: the
\* method, its arguments, whether the environment let os.Create succeed, and
\* the destination's contents before the call.
NoSave == [method |-> "none", filename |-> "", createOk |-> FALSE, entries |-> <<>>,
           before |-> NoFile]

NoRet == [err |-> Nil, creates |-> 0, opens |-> 0, writes |-> 0, closes |-> 0]

IdleSRP ==
    /\ logEntries = <<>>
    /\ files = [f \in Filenames |-> NoFile]
    /\ open = {}
    /\ saveCall = NoSave
    /\ saveRet = NoRet

(***************************************************************************)
(* isp.go (LSP): Go's int.  An int is IntBytes bytes, least significant    *)
(* first, in two's complement; * wraps around, as the language defines.    *)
(***************************************************************************)
IntBytes == 8

RECURSIVE ToBytes(_, _)
ToBytes(n, k) == IF k = 0 THEN <<>> ELSE <<n % 256>> \o ToBytes(n \div 256, k - 1)

\* Sum over i in lo..hi of a[i] * b[k + 1 - i]: column k of the long
\* multiplication.
RECURSIVE Column(_, _, _, _, _)
Column(a, b, k, lo, hi) ==
    IF lo > hi THEN 0 ELSE a[lo] * b[k + 1 - lo] + Column(a, b, k, lo + 1, hi)

RECURSIVE MulFrom(_, _, _, _, _)
MulFrom(a, b, n, k, carry) ==
    IF k > n THEN <<>>
    ELSE LET t == carry + Column(a, b, k, 1, k)
         IN  <<t % 256>> \o MulFrom(a, b, n, k + 1, t \div 256)

\* The low n bytes of the product of two n-byte numbers.
MulBytes(a, b, n) == MulFrom(a, b, n, 1, 0)

RECURSIVE NegFrom(_, _, _)
NegFrom(a, k, carry) ==
    IF k > Len(a) THEN <<>>
    ELSE LET t == (255 - a[k]) + carry
         IN  <<t % 256>> \o NegFrom(a, k + 1, t \div 256)

\* -a
Neg(a) == NegFrom(a, 1, 1)

\* The int with value n, for a small n.
GoInt(n) == IF n >= 0 THEN ToBytes(n, IntBytes) ELSE Neg(ToBytes(-n, IntBytes))

\* a * b
Mul(a, b) == MulBytes(a, b, IntBytes)

\* 2^(half the width of an int): the least positive int whose square wraps to 0.
HalfWord == [i \in 1..IntBytes |-> IF i = (IntBytes \div 2) + 1 THEN 1 ELSE 0]

\* The widths, heights and sizes of the model: 0..MaxDim, the 10 and 20 of
\* main, a negative value and a value whose square overflows.
IntValues == {GoInt(n) : n \in 0..MaxDim} \cup {GoInt(10), GoInt(20), GoInt(-1), HalfWord}

(***************************************************************************)
(* isp.go (LSP): Rectangle, Square and IRectangle.                         *)
(***************************************************************************)
RectangleGetWidth(r) == r.width

RectangleGetHeight(r) == r.height

RectangleSetWidth(r, width) == [r EXCEPT !.width = width]

\* A SetHeight that sets the width too.
RectangleSetHeightBoth(r, height) == [r EXCEPT !.width = height, !.height = height]

RectangleSetHeight(r, height) == [r EXCEPT !.height = height]

RectangleArea(r) == Mul(r.width, r.height)

\* A Square.SetWidth that leaves the height alone.
SquareSetWidthOnly(s, width) == [s EXCEPT !.width = width]

SquareSetWidth(s, width) == [s EXCEPT !.width = width, !.height = width]

\* A Square.SetHeight that leaves the width alone.
SquareSetHeightOnly(s, height) == [s EXCEPT !.height = height]

SquareSetHeight(s, height) == [s EXCEPT !.width = height, !.height = height]

NewRectangle(width, height) == [type |-> "Rectangle", width |-> width, height |-> height]

\* result := &Square{}; result.SetHeight(size)
NewSquare(size) ==
    SquareSetHeight([type |-> "Square", width |-> GoInt(0), height |-> GoInt(0)], size)

\* The IRectangle methods, dispatched on the concrete type; Square promotes
\* GetWidth, GetHeight and Area from the Rectangle it embeds.
GetWidth(r) == RectangleGetWidth(r)

GetHeight(r) == RectangleGetHeight(r)

Area(r) == RectangleArea(r)

SetWidth(r, width) ==
    IF r.type = "Square" THEN SquareSetWidth(r, width) ELSE RectangleSetWidth(r, width)

SetHeight(r, height) ==
    IF r.type = "Square" THEN SquareSetHeight(r, height) ELSE RectangleSetHeight(r, height)

NoSet == [method |-> "none", arg |-> GoInt(0), width |-> GoInt(0), height |-> GoInt(0)]

IdleLSP ==
    /\ rectangle = NewRectangle(GoInt(0), GoInt(0))
    /\ constructed = [func |-> "none", width |-> GoInt(0), height |-> GoInt(0)]
    /\ setCall = NoSet

(***************************************************************************)
(* isp.go (DIP): the workers and the Manager.  RegularWorker and           *)
(* SpecialWorker are empty structs, so a worker is its concrete type.      *)
(***************************************************************************)
WorkerTypes == {"RegularWorker", "SpecialWorker"}

\* Work(): the receiver and the line it prints.
Work(w) ==
    [worker |-> w,
     printed |-> IF w = "RegularWorker" THEN "Working..." ELSE "Especially working..."]

RECURSIVE DelegateWorkLoop(_, _, _)
DelegateWorkLoop(ws, i, calls) ==
    IF i > Len(ws) THEN calls
    ELSE DelegateWorkLoop(ws, i + 1, Append(calls, Work(ws[i])))

\* One loop per worker type, as SpecificManager.DelegateWork does.
DelegateWorkByType(ws) ==
    DelegateWorkLoop(SelectSeq(ws, LAMBDA w : w = "RegularWorker"), 1, <<>>)
        \o DelegateWorkLoop(SelectSeq(ws, LAMBDA w : w = "SpecialWorker"), 1, <<>>)

\* (m *Manager) DelegateWork(): the Work calls it makes.
DelegateWork(ws) == DelegateWorkLoop(ws, 1, <<>>)

\* (m *Manager) AddWorker(w)
AddWorker(ws, w) == Append(ws, w)

IdleDIP ==
    /\ workers = <<>>
    /\ managerCall = "none"
    /\ invoked = <<>>

(***************************************************************************)
(* The OCP example as a state machine: main holds a products slice and     *)
(* calls a filter method on it; a call leaves the slice as it was and      *)
(* returns a new one.                                                      *)
(***************************************************************************)
IdleOCP ==
    /\ products = <<>>
    /\ filterCall = NoCall
    /\ result = <<>>

InitOCP ==
    /\ products \in ProductSlices
    /\ filterCall = NoCall
    /\ result = <<>>
    /\ IdleSRP
    /\ IdleLSP
    /\ IdleDIP

CallBySize(size) ==
    /\ filterCall' = [NoCall EXCEPT !.method = "BySize", !.products = products,
                                    !.size = size]
    /\ result' = BySize(products, size)
    /\ UNCHANGED <<products, srpVars, lspVars, dipVars>>

CallByColor(color) ==
    /\ filterCall' = [NoCall EXCEPT !.method = "ByColor", !.products = products,
                                    !.color = color]
    /\ result' = ByColor(products, color)
    /\ UNCHANGED <<products, srpVars, lspVars, dipVars>>

CallBySizeAndColor(size, color) ==
    /\ filterCall' = [NoCall EXCEPT !.method = "BySizeAndColor", !.products = products,
                                    !.size = size, !.color = color]
    /\ result' = BySizeAndColor(products, size, color)
    /\ UNCHANGED <<products, srpVars, lspVars, dipVars>>

CallFilter(specification) ==
    /\ filterCall' = [NoCall EXCEPT !.method = "Filter", !.products = products,
                                    !.specification = specification]
    /\ result' = Filter(products, specification)
    /\ UNCHANGED <<products, srpVars, lspVars, dipVars>>

NextOCP ==
    \/ \E size \in Sizes : CallBySize(size)
    \/ \E color \in Colors : CallByColor(color)
    \/ \E size \in Sizes, color \in Colors : CallBySizeAndColor(size, color)
    \/ \E specification \in Specifications : CallFilter(specification)

SpecOCP == InitOCP /\ [][NextOCP]_vars

(***************************************************************************)
(* The SRP example as a state machine: Log appends, either Save writes     *)
(* the entries to a file the environment lets it create or not.            *)
(***************************************************************************)
InitSRP ==
    /\ IdleSRP
    /\ IdleOCP
    /\ IdleLSP
    /\ IdleDIP

\* (l *Logger) Log(entry)
Log(entry) ==
    /\ Len(logEntries) < MaxEntries
    /\ logEntries' = Append(logEntries, entry)
    /\ saveCall' = NoSave
    /\ saveRet' = NoRet
    /\ UNCHANGED <<files, open, ocpVars, lspVars, dipVars>>

\* What a Save call that has returned leaves: its record, the file system.
Returned(method, filename, createOk, ret) ==
    /\ saveCall' = [method |-> method, filename |-> filename, createOk |-> createOk,
                    entries |-> logEntries, before |-> files[filename]]
    /\ saveRet' = [err |-> ret.err, creates |-> ret.os.creates, opens |-> ret.os.opens,
                   writes |-> ret.os.writes, closes |-> ret.os.closes]
    /\ files' = ret.os.files
    /\ open' = ret.os.open

\* logger.Save(filename)
CallLoggerSave(filename, createOk) ==
    /\ Returned("Logger.Save", filename, createOk,
                LoggerSave(StartOs, logEntries, filename, createOk))
    /\ UNCHANGED <<logEntries, ocpVars, lspVars, dipVars>>

\* logWriter.Save(logger, filename)
CallLogFileWriterSave(filename, createOk) ==
    /\ Returned("LogFileWriter.Save", filename, createOk,
                LogFileWriterSave(StartOs, logEntries, filename, createOk))
    /\ UNCHANGED <<logEntries, ocpVars, lspVars, dipVars>>

NextSRP ==
    \/ \E entry \in Entries : Log(entry)
    \/ \E filename \in Filenames, createOk \in BOOLEAN : CallLoggerSave(filename, createOk)
    \/ \E filename \in Filenames, createOk \in BOOLEAN :
          CallLogFileWriterSave(filename, createOk)

SpecSRP == InitSRP /\ [][NextSRP]_vars

(***************************************************************************)
(* The LSP example as a state machine: main constructs a rectangle or a    *)
(* square, holds it as an IRectangle, reads the width and height and       *)
(* calls a setter.                                                         *)
(***************************************************************************)
InitLSP ==
    /\ \/ \E width \in IntValues, height \in IntValues :
             /\ rectangle = NewRectangle(width, height)
             /\ constructed = [func |-> "NewRectangle", width |-> width, height |-> height]
       \/ \E size \in IntValues :
             /\ rectangle = NewSquare(size)
             /\ constructed = [func |-> "NewSquare", width |-> size, height |-> size]
    /\ setCall = NoSet
    /\ IdleOCP
    /\ IdleSRP
    /\ IdleDIP

CallSetWidth(width) ==
    /\ setCall' = [method |-> "SetWidth", arg |-> width,
                   width |-> GetWidth(rectangle), height |-> GetHeight(rectangle)]
    /\ rectangle' = SetWidth(rectangle, width)
    /\ UNCHANGED <<constructed, ocpVars, srpVars, dipVars>>

CallSetHeight(height) ==
    /\ setCall' = [method |-> "SetHeight", arg |-> height,
                   width |-> GetWidth(rectangle), height |-> GetHeight(rectangle)]
    /\ rectangle' = SetHeight(rectangle, height)
    /\ UNCHANGED <<constructed, ocpVars, srpVars, dipVars>>

NextLSP ==
    \/ \E width \in IntValues : CallSetWidth(width)
    \/ \E height \in IntValues : CallSetHeight(height)

SpecLSP == InitLSP /\ [][NextLSP]_vars

(***************************************************************************)
(* The DIP example as a state machine: main registers workers with the     *)
(* Manager and has it delegate the work.                                   *)
(***************************************************************************)
InitDIP ==
    /\ IdleDIP
    /\ IdleOCP
    /\ IdleSRP
    /\ IdleLSP

CallAddWorker(w) ==
    /\ Len(workers) < MaxWorkers
    /\ workers' = AddWorker(workers, w)
    /\ managerCall' = "AddWorker"
    /\ UNCHANGED <<invoked, ocpVars, srpVars, lspVars>>

CallDelegateWork ==
    /\ invoked' = DelegateWork(workers)
    /\ managerCall' = "DelegateWork"
    /\ UNCHANGED <<workers, ocpVars, srpVars, lspVars>>

NextDIP ==
    \/ \E w \in WorkerTypes : CallAddWorker(w)
    \/ CallDelegateWork

SpecDIP == InitDIP /\ [][NextDIP]_vars

(***************************************************************************)
(* Properties of the OCP example.                                          *)
(***************************************************************************)
Satisfying(ps, specification) ==
    SelectSeq(ps, LAMBDA product : IsSatisfied(specification, product))

\* C1: RightFilter.Filter(products, specification) returns exactly the
\* sub-sequence of products the specification is satisfied by, in their
\* original order; on main's products Size=Small yields [Bike, Motorcycle],
\* Color=Green yields [Motorcycle, Car] and AND(Size=Large, Color=Yellow)
\* yields [Train].
FilterReturnsSatisfying ==
    filterCall.method = "Filter" =>
        /\ result = Satisfying(filterCall.products, filterCall.specification)
        /\ filterCall.products = SampleProducts =>
              /\ filterCall.specification = NewSizeSpecification(Small)
                    => result = <<bike, motorcycle>>
              /\ filterCall.specification = NewColorSpecification(Green)
                    => result = <<motorcycle, car>>
              /\ filterCall.specification =
                     NewAndSpecification(NewSizeSpecification(Large),
                                         NewColorSpecification(Yellow))
                    => result = <<train>>

FilterSampleLargeYellow ==
    /\ filterCall.method = "Filter"
    /\ filterCall.products = SampleProducts
    /\ filterCall.specification =
           NewAndSpecification(NewSizeSpecification(Large), NewColorSpecification(Yellow))
    /\ [i \in 1..Len(result) |-> GetName(result[i])] = <<"Train">>

\* C2: AndSpecification(p, q) is satisfied by a product iff p and q both
\* are, and filtering with the conjunction equals filtering with p and then
\* filtering the result with q.
AndFilterIsFilterTwice ==
    (filterCall.method = "Filter" /\ filterCall.specification.kind = "and") =>
        LET p == filterCall.specification.first
            q == filterCall.specification.second
        IN  /\ \A i \in 1..Len(filterCall.products) :
                  IsSatisfied(filterCall.specification, filterCall.products[i])
                      <=> (IsSatisfied(p, filterCall.products[i])
                              /\ IsSatisfied(q, filterCall.products[i]))
            /\ result = Filter(Filter(filterCall.products, p), q)

AndFilterSmallGreen ==
    /\ filterCall.method = "Filter"
    /\ filterCall.products = SampleProducts
    /\ filterCall.specification =
           NewAndSpecification(NewSizeSpecification(Small), NewColorSpecification(Green))
    /\ result = <<motorcycle>>

\* C10: each WrongFilter method returns what RightFilter.Filter returns for
\* the matching specification, and no filter method changes the slice it is
\* given.
WrongFilterEqualsRightFilter ==
    /\ filterCall.method = "BySize" =>
          result = Filter(filterCall.products, NewSizeSpecification(filterCall.size))
    /\ filterCall.method = "ByColor" =>
          result = Filter(filterCall.products, NewColorSpecification(filterCall.color))
    /\ filterCall.method = "BySizeAndColor" =>
          result = Filter(filterCall.products,
                          NewAndSpecification(NewSizeSpecification(filterCall.size),
                                              NewColorSpecification(filterCall.color)))
    /\ filterCall.method # "none" => products = filterCall.products

WrongFilterLargeYellow ==
    /\ filterCall.method = "BySizeAndColor"
    /\ filterCall.products = SampleProducts
    /\ filterCall.size = Large
    /\ filterCall.color = Yellow
    /\ result = <<train>>

(***************************************************************************)
(* Properties of the SRP example.                                          *)
(***************************************************************************)
\* Reading a file line by line: a line ends at each newline, and what
\* follows the last newline is a line when it is not empty.
RECURSIVE ReadLinesFrom(_, _, _, _)
ReadLinesFrom(data, i, line, lines) ==
    IF i > Len(data) THEN (IF line = <<>> THEN lines ELSE Append(lines, line))
    ELSE IF data[i] = NL THEN ReadLinesFrom(data, i + 1, <<>>, Append(lines, line))
    ELSE ReadLinesFrom(data, i + 1, Append(line, data[i]), lines)

ReadLines(data) == ReadLinesFrom(data, 1, <<>>, <<>>)

HasNewline(entry) == \E i \in 1..Len(entry) : entry[i] = NL

\* C3: after a successful LogFileWriter.Save, reading the destination line
\* by line gives back the logged entries, whatever the entries are.
RoundTripReproducesEntries ==
    (saveCall.method = "LogFileWriter.Save" /\ saveRet.err = Nil) =>
        ReadLines(files[saveCall.filename]) = saveCall.entries

\* The round trip of C3 for entries that hold no newline.
RoundTripWithoutNewlines ==
    ( /\ saveCall.method = "LogFileWriter.Save"
      /\ saveRet.err = Nil
      /\ \A i \in 1..Len(saveCall.entries) : ~HasNewline(saveCall.entries[i]) ) =>
        ReadLines(files[saveCall.filename]) = saveCall.entries

\* C7: a Save whose destination cannot be created returns the error of
\* os.Create after one attempt, writes nothing and leaves the entries as
\* they were; a Save whose destination can be created returns nil.
SaveReturnsCreateError ==
    saveCall.method # "none" =>
        /\ saveRet.creates = 1
        /\ logEntries = saveCall.entries
        /\ ~saveCall.createOk =>
              /\ saveRet.err = CreateError
              /\ saveRet.writes = 0
              /\ files[saveCall.filename] = saveCall.before
        /\ saveCall.createOk => saveRet.err = Nil

SaveFailedToCreate ==
    /\ saveCall.method = "LogFileWriter.Save"
    /\ ~saveCall.createOk
    /\ Len(saveCall.entries) = 2
    /\ saveRet.err = CreateError

\* C8: when a Save has returned, with or without an error, no file is left
\* open, and the call closed exactly the files it opened.
SaveLeavesNothingOpen ==
    /\ open = {}
    /\ saveRet.closes = saveRet.opens
    /\ saveCall.method # "none" =>
          saveRet.opens = (IF saveCall.createOk THEN 1 ELSE 0)

SaveWroteAndClosed ==
    /\ saveCall.method = "LogFileWriter.Save"
    /\ saveCall.createOk
    /\ saveRet.writes = 2
    /\ saveRet.opens = 1
    /\ saveRet.closes = 1

(***************************************************************************)
(* Properties of the LSP example.                                          *)
(***************************************************************************)
IsNeg(a) == a[IntBytes] >= 128

Abs(a) == IF IsNeg(a) THEN Neg(a) ELSE a

Widen(a) == a \o [i \in 1..IntBytes |-> 0]

\* The product of a and b, as numbers, is an int: it does not overflow.
NoOverflow(a, b) ==
    LET m == MulBytes(Widen(Abs(a)), Widen(Abs(b)), 2 * IntBytes)
    IN  /\ \A i \in (IntBytes + 1)..(2 * IntBytes) : m[i] = 0
        /\ \/ m[IntBytes] < 128
           \/ /\ IsNeg(a) # IsNeg(b)
              /\ m[IntBytes] = 128
              /\ \A i \in 1..(IntBytes - 1) : m[i] = 0

\* C5: on a rectangle made by NewRectangle, SetHeight(h) leaves the width
\* as it was, sets the height to h and makes Area() the width times h;
\* SetWidth leaves the height as it was.
RectangleSettersAreIndependent ==
    constructed.func = "NewRectangle" =>
        /\ setCall.method = "SetHeight" =>
              /\ GetWidth(rectangle) = setCall.width
              /\ GetHeight(rectangle) = setCall.arg
              /\ Area(rectangle) = Mul(setCall.width, setCall.arg)
        /\ setCall.method = "SetWidth" =>
              /\ GetHeight(rectangle) = setCall.height
              /\ GetWidth(rectangle) = setCall.arg

RectangleTenByTwenty ==
    /\ constructed = [func |-> "NewRectangle", width |-> GoInt(10), height |-> GoInt(10)]
    /\ setCall = [method |-> "SetHeight", arg |-> GoInt(20),
                  width |-> GoInt(10), height |-> GoInt(10)]
    /\ Area(rectangle) = GoInt(200)

\* C6 as stated: on a square of width s, after SetHeight(h) with h # s the
\* width is h, Area() is h*h, and Area() differs from s*h whenever h # 0.
SquareAreaDiffersWheneverNonzero ==
    ( /\ constructed.func = "NewSquare"
      /\ setCall.method = "SetHeight"
      /\ setCall.arg # setCall.width ) =>
        /\ GetWidth(rectangle) = setCall.arg
        /\ Area(rectangle) = Mul(setCall.arg, setCall.arg)
        /\ setCall.arg # GoInt(0) => Area(rectangle) # Mul(setCall.width, setCall.arg)

\* C6, amended: on a square of width s, after SetHeight(h) with h # s the
\* width is h, Area() is h*h, and Area() differs from s*h whenever h # 0 and
\* neither h*h nor s*h overflows int.
SquareAreaDiffersWithoutOverflow ==
    ( /\ constructed.func = "NewSquare"
      /\ setCall.method = "SetHeight"
      /\ setCall.arg # setCall.width ) =>
        /\ GetWidth(rectangle) = setCall.arg
        /\ Area(rectangle) = Mul(setCall.arg, setCall.arg)
        /\ ( /\ setCall.arg # GoInt(0)
             /\ NoOverflow(setCall.arg, setCall.arg)
             /\ NoOverflow(setCall.width, setCall.arg) )
              => Area(rectangle) # Mul(setCall.width, setCall.arg)

SquareTenSetHeightTwenty ==
    /\ constructed = [func |-> "NewSquare", width |-> GoInt(10), height |-> GoInt(10)]
    /\ setCall = [method |-> "SetHeight", arg |-> GoInt(20),
                  width |-> GoInt(10), height |-> GoInt(10)]
    /\ Mul(setCall.width, setCall.arg) = GoInt(200)
    /\ Area(rectangle) = GoInt(400)

\* C9: a square made by NewSquare(size) and driven through IRectangle has
\* its width equal to its height, both the argument of the last setter call
\* (size when there was none), and Area() that value squared.
SquareStaysSquare ==
    constructed.func = "NewSquare" =>
        LET last == IF setCall.method = "none" THEN constructed.width ELSE setCall.arg
        IN  /\ GetWidth(rectangle) = GetHeight(rectangle)
            /\ GetWidth(rectangle) = last
            /\ Area(rectangle) = Mul(last, last)

SquareAfterSetWidth ==
    /\ constructed.func = "NewSquare"
    /\ setCall.method = "SetWidth"
    /\ setCall.arg = GoInt(20)
    /\ setCall.width = GoInt(10)
    /\ GetHeight(rectangle) = GoInt(20)
    /\ Area(rectangle) = GoInt(400)

(***************************************************************************)
(* Properties of the DIP example.                                          *)
(***************************************************************************)
\* C4: DelegateWork calls Work once for each registered worker, in the
\* order of registration, whatever the workers' types.
DelegateWorkInRegistrationOrder ==
    managerCall = "DelegateWork" =>
        /\ Len(invoked) = Len(workers)
        /\ \A i \in 1..Len(workers) :
              /\ invoked[i].worker = workers[i]
              /\ invoked[i].printed =
                    (IF workers[i] = "RegularWorker" THEN "Working..."
                     ELSE "Especially working...")

DelegatedToInterleavedWorkers ==
    /\ managerCall = "DelegateWork"
    /\ workers = <<"SpecialWorker", "RegularWorker", "SpecialWorker">>
    /\ [i \in 1..Len(invoked) |-> invoked[i].worker] = workers

====
